---- MODULE Spec2Model ----
(***************************************************************************)
(* Model of the machine degradation simulator (data_generator.MachineSim), *)
(* driven as main.py drives one machine, and of the ground-truth label     *)
(* function (model.label_point) as generate_training_data applies it.      *)
(*                                                                         *)
(* Units: temperatures, vibrations and pressures are fixed-point numbers   *)
(* in tenths (85.0 degC is 850, 0.2 mm/s is 2); cycle counts are integers. *)
(*                                                                         *)
(* Random source: random.uniform(lo, hi) is lo + (hi - lo) * q for a       *)
(* quantile q of the source; the model follows the two extreme quantiles.  *)
(* The three uniform draws that one branch of update() makes share their   *)
(* quantile; random.randint, random.random, random.choice and the          *)
(* baseline draws of construction and maintenance are chosen on their own. *)
(***************************************************************************)
EXTENDS Integers, Sequences, FiniteSets, TLC

\* ---------------------------------------------------------------- config.py
TEMP_WARN == 850
TEMP_FAIL == 1000
VIB_WARN == 60
VIB_FAIL == 120
PRESS_WARN_LOW == 900
PRESS_WARN_HIGH == 1600
PRESS_FAIL_LOW == 800
PRESS_FAIL_HIGH == 1700
CYCLES_WARN == 800
CYCLES_FAIL == 1200

\* ------------------------------------------------------------------ bounds
\* number of update() calls followed from construction
MaxCalls == 11

\* --------------------------------------------------------- random source
\* random.uniform(lo, hi) at quantile q of the random source
Quantiles == {0, 1}
Uniform(lo, hi, q) == IF q = 0 THEN lo ELSE hi
\* the quantiles of the three uniform draws of one branch of update()
Draws == {<<q, q, q>> : q \in Quantiles}
\* the quantiles of the three baseline draws (construction, maintenance)
BaselineDraws == Quantiles \X Quantiles \X Quantiles
\* random.randint with the lower end one too low
RandIntFromBelow(a, b) == {a - 1, b}

\* random.randint(a, b), at the two ends of its range
RandInt(a, b) == {a, b}
FaultTypes == {"temp", "vibration", "pressure_high", "pressure_low"}

\* cycle counts written into a freshly constructed simulator: 0 and 1300 as
\* in main.py, 1200 (CYCLES_FAIL), and the last values below the two cycle
\* thresholds that one update() can cross
SeedCycles == {0, 795, 1195, 1200, 1300}

Max(a, b) == IF a >= b THEN a ELSE b
Min(a, b) == IF a <= b THEN a ELSE b

\* "if x < 0: x = 0.0"
Clamp(x) == IF x < 0 THEN 0 ELSE x

VARIABLES temp, vib, press, cycles, state, fault_type, fail_time, degrade_time,
          ret, pstate, dwell, away, calls, sample, label,
          phase, thresholds, clf, machines, idx, last_status, ticks, updates

\* the variables of main.py: phase is the position in the script, thresholds
\* the values of the config module, clf the trained classifier, machines the
\* list of simulators, idx the position of update_loop in that list;
\* history: ticks counts the calls of update_loop, updates the calls of
\* update() per machine
mainvars == <<phase, thresholds, clf, machines, idx, last_status, ticks, updates>>

vars == <<temp, vib, press, cycles, state, fault_type, fail_time, degrade_time,
          ret, pstate, dwell, away, calls, sample, label,
          phase, thresholds, clf, machines, idx, last_status, ticks, updates>>

\* the simulator's fields as one record
self == [temp |-> temp, vib |-> vib, press |-> press, cycles |-> cycles,
         state |-> state, fault_type |-> fault_type,
         fail_time |-> fail_time, degrade_time |-> degrade_time]

\* ------------------------------------------------------------- label_point
\* label_point with the bounds themselves excluded
label_pointStrict(t, v, p, c) ==
    IF t > TEMP_FAIL \/ v > VIB_FAIL \/ p < PRESS_FAIL_LOW
       \/ p > PRESS_FAIL_HIGH \/ c > CYCLES_FAIL
    THEN 2
    ELSE IF t > TEMP_WARN \/ v > VIB_WARN \/ p < PRESS_WARN_LOW
            \/ p > PRESS_WARN_HIGH \/ c > CYCLES_WARN
         THEN 1
         ELSE 0

label_point(t, v, p, c) ==
    IF t >= TEMP_FAIL \/ v >= VIB_FAIL \/ p <= PRESS_FAIL_LOW
       \/ p >= PRESS_FAIL_HIGH \/ c >= CYCLES_FAIL
    THEN 2
    ELSE IF t >= TEMP_WARN \/ v >= VIB_WARN \/ p <= PRESS_WARN_LOW
            \/ p >= PRESS_WARN_HIGH \/ c >= CYCLES_WARN
         THEN 1
         ELSE 0

\* ------------------------------------------------------ MachineSim.update
\* Trigger without the cycle-count condition
TriggerRandomOnly(c, rnd) == rnd

\* lines 42-48: the two conditions that leave Normal
Trigger(c, rnd) == c >= CYCLES_WARN \/ rnd

\* ForceFault with the low-pressure margin on the wrong side of the bound
ForceFaultWrongSide(s, ft) ==
    CASE ft = "temp"          -> [s EXCEPT !.temp = Max(s.temp, TEMP_WARN + 50)]
      [] ft = "vibration"     -> [s EXCEPT !.vib = Max(s.vib, VIB_WARN + 10)]
      [] ft = "pressure_high" -> [s EXCEPT !.press = Max(s.press, PRESS_WARN_HIGH + 50)]
      [] ft = "pressure_low"  -> [s EXCEPT !.press = Min(s.press, PRESS_WARN_LOW + 50)]
      [] OTHER                -> s

\* lines 56-63: the chosen fault's metric is put at a warning level
ForceFault(s, ft) ==
    CASE ft = "temp"          -> [s EXCEPT !.temp = Max(s.temp, TEMP_WARN + 50)]
      [] ft = "vibration"     -> [s EXCEPT !.vib = Max(s.vib, VIB_WARN + 10)]
      [] ft = "pressure_high" -> [s EXCEPT !.press = Max(s.press, PRESS_WARN_HIGH + 50)]
      [] ft = "pressure_low"  -> [s EXCEPT !.press = Min(s.press, PRESS_WARN_LOW - 50)]
      [] OTHER                -> s

\* Escalate without the shortcut
EscalateNever(s) == s

\* Escalate tested against the warning threshold
EscalateAtWarn(s) ==
    IF s.cycles >= CYCLES_WARN
    THEN [s EXCEPT !.state = 2, !.fail_time = 0]
    ELSE s

\* lines 64-67: escalation straight to the failure state
Escalate(s) ==
    IF s.cycles >= CYCLES_FAIL
    THEN [s EXCEPT !.state = 2, !.fail_time = 0]
    ELSE s

\* lines 49-67: the body of "if trigger"
EnterWarning(s, ft) ==
    Escalate(ForceFault([s EXCEPT !.state = 1, !.degrade_time = 0,
                                  !.fault_type = ft], ft))

\* lines 30-40: cycles advance, the readings fluctuate and are clamped
NormalDrift(s, inc, q1, q2, q3) ==
    [s EXCEPT !.cycles = s.cycles + inc,
              !.temp = s.temp + Uniform(-10, 10, q1),
              !.vib = Clamp(s.vib + Uniform(-2, 2, q2)),
              !.press = Clamp(s.press + Uniform(-20, 20, q3))]

\* Exacerbate with the temperature fault cooling down
ExacerbateCooling(s, q1, q2, q3) ==
    CASE s.fault_type = "temp" ->
           [s EXCEPT !.temp = s.temp - Uniform(10, 30, q1),
                     !.vib = s.vib + Uniform(0, 5, q2),
                     !.press = s.press + Uniform(-10, 10, q3)]
      [] s.fault_type = "vibration" ->
           [s EXCEPT !.vib = s.vib + Uniform(5, 15, q1),
                     !.temp = s.temp + Uniform(0, 10, q2),
                     !.press = s.press + Uniform(-10, 10, q3)]
      [] s.fault_type = "pressure_high" ->
           [s EXCEPT !.press = s.press + Uniform(20, 50, q1),
                     !.vib = s.vib + Uniform(0, 3, q2),
                     !.temp = s.temp + Uniform(0, 10, q3)]
      [] s.fault_type = "pressure_low" ->
           [s EXCEPT !.press = Clamp(s.press - Uniform(20, 50, q1)),
                     !.temp = s.temp + Uniform(-5, 5, q2),
                     !.vib = s.vib + Uniform(-1, 5, q3)]
      [] OTHER -> s

\* Exacerbate with the low pressure fault raising the pressure
ExacerbateRecovering(s, q1, q2, q3) ==
    CASE s.fault_type = "temp" ->
           [s EXCEPT !.temp = s.temp + Uniform(10, 30, q1),
                     !.vib = s.vib + Uniform(0, 5, q2),
                     !.press = s.press + Uniform(-10, 10, q3)]
      [] s.fault_type = "vibration" ->
           [s EXCEPT !.vib = s.vib + Uniform(5, 15, q1),
                     !.temp = s.temp + Uniform(0, 10, q2),
                     !.press = s.press + Uniform(-10, 10, q3)]
      [] s.fault_type = "pressure_high" ->
           [s EXCEPT !.press = s.press + Uniform(20, 50, q1),
                     !.vib = s.vib + Uniform(0, 3, q2),
                     !.temp = s.temp + Uniform(0, 10, q3)]
      [] s.fault_type = "pressure_low" ->
           [s EXCEPT !.press = Clamp(s.press + Uniform(20, 50, q1)),
                     !.temp = s.temp + Uniform(-5, 5, q2),
                     !.vib = s.vib + Uniform(-1, 5, q3)]
      [] OTHER -> s

\* lines 75-101: the fault gets worse
Exacerbate(s, q1, q2, q3) ==
    CASE s.fault_type = "temp" ->
           [s EXCEPT !.temp = s.temp + Uniform(10, 30, q1),
                     !.vib = s.vib + Uniform(0, 5, q2),
                     !.press = s.press + Uniform(-10, 10, q3)]
      [] s.fault_type = "vibration" ->
           [s EXCEPT !.vib = s.vib + Uniform(5, 15, q1),
                     !.temp = s.temp + Uniform(0, 10, q2),
                     !.press = s.press + Uniform(-10, 10, q3)]
      [] s.fault_type = "pressure_high" ->
           [s EXCEPT !.press = s.press + Uniform(20, 50, q1),
                     !.vib = s.vib + Uniform(0, 3, q2),
                     !.temp = s.temp + Uniform(0, 10, q3)]
      [] s.fault_type = "pressure_low" ->
           [s EXCEPT !.press = Clamp(s.press - Uniform(20, 50, q1)),
                     !.temp = s.temp + Uniform(-5, 5, q2),
                     !.vib = s.vib + Uniform(-1, 5, q3)]
      [] OTHER -> s

\* FailureReached with the timeout one call late
FailureReachedLate(s) ==
    \/ s.temp >= TEMP_FAIL
    \/ s.vib >= VIB_FAIL
    \/ s.press >= PRESS_FAIL_HIGH
    \/ s.press <= PRESS_FAIL_LOW
    \/ s.cycles >= CYCLES_FAIL
    \/ s.degrade_time >= 6

\* FailureReached without the low pressure bound
FailureReachedNoLowPressure(s) ==
    \/ s.temp >= TEMP_FAIL
    \/ s.vib >= VIB_FAIL
    \/ s.press >= PRESS_FAIL_HIGH
    \/ s.cycles >= CYCLES_FAIL
    \/ s.degrade_time >= 5

\* lines 103-105: the failure territory
FailureReached(s) ==
    \/ s.temp >= TEMP_FAIL
    \/ s.vib >= VIB_FAIL
    \/ s.press >= PRESS_FAIL_HIGH
    \/ s.press <= PRESS_FAIL_LOW
    \/ s.cycles >= CYCLES_FAIL
    \/ s.degrade_time >= 5

\* lines 106-108: elevate to the failure-predicted state
Elevate(s) ==
    IF FailureReached(s) THEN [s EXCEPT !.state = 2, !.fail_time = 0] ELSE s

\* lines 70-108: the branch of update() taken in state 1
DegradingStep(s, inc, q1, q2, q3) ==
    Elevate(Exacerbate([s EXCEPT !.degrade_time = s.degrade_time + 1,
                                 !.cycles = s.cycles + inc], q1, q2, q3))

\* MaintenanceDue one call late
MaintenanceDueLate(s) ==
    s.fail_time >= 6 \/ s.cycles >= CYCLES_FAIL + 100

\* MaintenanceDue without the limit on the time spent failing
MaintenanceDueCyclesOnly(s) ==
    s.cycles >= CYCLES_FAIL + 100

\* line 127: maintenance is due
MaintenanceDue(s) ==
    s.fail_time >= 5 \/ s.cycles >= CYCLES_FAIL + 100

\* Maintained without clearing the fault type
MaintainedKeepsFault(s, q1, q2, q3) ==
    [s EXCEPT !.state = 0, !.temp = Uniform(600, 750, q1),
              !.vib = Uniform(10, 30, q2), !.press = Uniform(1100, 1300, q3),
              !.cycles = 0, !.degrade_time = 0, !.fail_time = 0]

\* Maintained without resetting degrade_time
MaintainedKeepsDegradeTime(s, q1, q2, q3) ==
    [s EXCEPT !.state = 0, !.temp = Uniform(600, 750, q1),
              !.vib = Uniform(10, 30, q2), !.press = Uniform(1100, 1300, q3),
              !.cycles = 0, !.fault_type = "None", !.fail_time = 0]

\* Maintained with the machine put back into the warning state
MaintainedAsWarning(s, q1, q2, q3) ==
    [s EXCEPT !.state = 1, !.temp = Uniform(600, 750, q1),
              !.vib = Uniform(10, 30, q2), !.press = Uniform(1100, 1300, q3),
              !.cycles = 0, !.fault_type = "None",
              !.degrade_time = 0, !.fail_time = 0]

\* lines 129-136: the machine after maintenance, with fresh baseline draws
Maintained(s, q1, q2, q3) ==
    [s EXCEPT !.state = 0, !.temp = Uniform(600, 750, q1),
              !.vib = Uniform(10, 30, q2), !.press = Uniform(1100, 1300, q3),
              !.cycles = 0, !.fault_type = "None",
              !.degrade_time = 0, !.fail_time = 0]

\* lines 112-125: the failing machine keeps running and gets worse
FailureDrift(s, inc, q1, q2, q3) ==
    [s EXCEPT !.fail_time = s.fail_time + 1,
              !.cycles = s.cycles + inc,
              !.temp = s.temp + Uniform(0, 10, q1),
              !.vib = s.vib + Uniform(0, 5, q2),
              !.press = IF s.fault_type = "pressure_low"
                        THEN Clamp(s.press - Uniform(0, 10, q3))
                        ELSE s.press + Uniform(0, 20, q3)]

\* the fields after a call and the returned reading (line 139); history:
\* pstate is the state the call started in, dwell the number of calls
\* completed since the state last changed, away the number of calls
\* completed since the call that left Normal, calls the number of calls
Becomes(s) ==
    /\ temp' = s.temp
    /\ vib' = s.vib
    /\ press' = s.press
    /\ cycles' = s.cycles
    /\ state' = s.state
    /\ fault_type' = s.fault_type
    /\ fail_time' = s.fail_time
    /\ degrade_time' = s.degrade_time
    /\ ret' = <<s.temp, s.vib, s.press, s.cycles>>
    /\ pstate' = state
    /\ dwell' = IF s.state = state THEN dwell + 1 ELSE 0
    /\ away' = IF s.state = 0 \/ state = 0 THEN 0 ELSE away + 1
    /\ calls' = calls + 1
    /\ UNCHANGED <<sample, label>>
    /\ UNCHANGED mainvars

\* lines 29-67: what a call made in state 0 can leave
NormalResults(s) ==
    UNION {LET s1 == NormalDrift(s, inc, d[1], d[2], d[3])
           IN  IF Trigger(s1.cycles, rnd)
               THEN {EnterWarning(s1, ft) : ft \in FaultTypes}
               ELSE {s1} :
           inc \in RandInt(1, 5), d \in Draws, rnd \in BOOLEAN}

\* lines 70-108: what a call made in state 1 can leave
DegradingResults(s) ==
    {DegradingStep(s, inc, d[1], d[2], d[3]) :
        inc \in RandInt(1, 5), d \in Draws}

\* lines 111-136: what a call made in state 2 can leave
FailureResults(s) ==
    UNION {LET s1 == FailureDrift(s, inc, d[1], d[2], d[3])
           IN  IF MaintenanceDue(s1)
               THEN {Maintained(s1, b[1], b[2], b[3]) : b \in BaselineDraws}
               ELSE {s1} :
           inc \in RandInt(1, 5), d \in Draws}

\* lines 23-139: update() on the simulator s, for every outcome of the draws
update(s) ==
    CASE s.state = 0 -> NormalResults(s)
      [] s.state = 1 -> DegradingResults(s)
      [] s.state = 2 -> FailureResults(s)
      [] OTHER       -> {s}

UpdateNormal ==
    /\ calls < MaxCalls
    /\ state = 0
    /\ \E r \in NormalResults(self) : Becomes(r)

UpdateDegrading ==
    /\ calls < MaxCalls
    /\ state = 1
    /\ \E r \in DegradingResults(self) : Becomes(r)

UpdateFailure ==
    /\ calls < MaxCalls
    /\ state = 2
    /\ \E r \in FailureResults(self) : Becomes(r)

\* config.py as shipped
Shipped ==
    [TEMP_WARN |-> TEMP_WARN, TEMP_FAIL |-> TEMP_FAIL,
     VIB_WARN |-> VIB_WARN, VIB_FAIL |-> VIB_FAIL,
     PRESS_WARN_LOW |-> PRESS_WARN_LOW, PRESS_WARN_HIGH |-> PRESS_WARN_HIGH,
     PRESS_FAIL_LOW |-> PRESS_FAIL_LOW, PRESS_FAIL_HIGH |-> PRESS_FAIL_HIGH,
     CYCLES_WARN |-> CYCLES_WARN, CYCLES_FAIL |-> CYCLES_FAIL]

\* main.py is not running: the single simulator of Spec is driven directly
NoMain ==
    /\ phase = "none"
    /\ thresholds = Shipped
    /\ clf = "none"
    /\ machines = <<>>
    /\ idx = 0
    /\ last_status = <<>>
    /\ ticks = 0
    /\ updates = <<>>

\* MachineSim.__init__ followed by the assignment of main.py lines 17-21
Init ==
    /\ NoMain
    /\ \E b \in BaselineDraws :
          /\ temp = Uniform(600, 750, b[1])
          /\ vib = Uniform(10, 30, b[2])
          /\ press = Uniform(1100, 1300, b[3])
    /\ cycles \in SeedCycles
    /\ state = 0
    /\ fault_type = "None"
    /\ fail_time = 0
    /\ degrade_time = 0
    /\ ret = <<>>
    /\ pstate = -1
    /\ dwell = 0
    /\ away = 0
    /\ calls = 0
    /\ sample = <<>>
    /\ label = -1

Next == UpdateNormal \/ UpdateDegrading \/ UpdateFailure

Spec == Init /\ [][Next]_vars

\* ------------------------------------------- model.generate_training_data
\* readings in the sampling ranges of lines 36-39, on and around the bounds
SampleTemps == {700, 849, 850, 900, 999, 1000, 1050}
SampleVibs == {20, 59, 60, 119, 120}
SamplePress == {799, 800, 801, 899, 900, 901, 1200, 1599, 1600, 1699, 1700}
SampleCycles == {10, 799, 800, 1199, 1200}

\* lines 34-45: one iteration of the sampling loop; sample and label are the
\* last elements appended to X and y
GenerateSample ==
    /\ \E t \in SampleTemps, v \in SampleVibs, p \in SamplePress,
          c \in SampleCycles :
          /\ sample' = <<t, v, p, c>>
          /\ label' = label_point(t, v, p, c)
    /\ UNCHANGED <<temp, vib, press, cycles, state, fault_type, fail_time,
                   degrade_time, ret, pstate, dwell, away, calls>>
    /\ UNCHANGED mainvars

\* main.py line 12: training comes first, no simulator is constructed yet
InitLabel ==
    /\ NoMain
    /\ sample = <<>>
    /\ label = -1
    /\ temp = 0 /\ vib = 0 /\ press = 0 /\ cycles = 0
    /\ state = 0 /\ fault_type = "None"
    /\ fail_time = 0 /\ degrade_time = 0
    /\ ret = <<>> /\ pstate = -1 /\ dwell = 0 /\ away = 0 /\ calls = 0

NextLabel == GenerateSample

SpecLabel == InitLabel /\ [][NextLabel]_vars

\* ----------------------------------------------------------------- main.py
\* simulators created by line 15, out of the five of main.py
NumMachines == 2
\* iterations of the loop of update_loop followed, over all ticks
MaxLoopCalls == 3

\* the cycle counts of lines 17-21, by position in the list
MainSeeds == <<0, 1300, 600, 0, 750>>

\* MachineSim(i) with its baseline draws at quantiles b, then lines 17-21
MachineSim(i, b) ==
    [id |-> i,
     temp |-> Uniform(600, 750, b[1]), vib |-> Uniform(10, 30, b[2]),
     press |-> Uniform(1100, 1300, b[3]), cycles |-> MainSeeds[i],
     state |-> 0, fault_type |-> "None", fail_time |-> 0, degrade_time |-> 0]

\* values the config module may hold: each warn/fail pair as shipped, equal
\* or out of order
Configs ==
    {[TEMP_WARN |-> t[1], TEMP_FAIL |-> t[2],
      VIB_WARN |-> v[1], VIB_FAIL |-> v[2],
      PRESS_FAIL_LOW |-> p[1], PRESS_WARN_LOW |-> p[2],
      PRESS_WARN_HIGH |-> p[3], PRESS_FAIL_HIGH |-> p[4],
      CYCLES_WARN |-> c[1], CYCLES_FAIL |-> c[2]] :
        t \in {<<TEMP_WARN, TEMP_FAIL>>, <<TEMP_FAIL, TEMP_FAIL>>,
               <<TEMP_FAIL + 50, TEMP_FAIL>>},
        v \in {<<VIB_WARN, VIB_FAIL>>, <<VIB_FAIL, VIB_WARN>>},
        p \in {<<PRESS_FAIL_LOW, PRESS_WARN_LOW, PRESS_WARN_HIGH, PRESS_FAIL_HIGH>>,
               <<PRESS_WARN_LOW, PRESS_FAIL_LOW, PRESS_WARN_HIGH, PRESS_FAIL_HIGH>>,
               <<PRESS_FAIL_LOW, PRESS_WARN_LOW, PRESS_FAIL_HIGH, PRESS_WARN_HIGH>>},
        c \in {<<CYCLES_WARN, CYCLES_FAIL>>, <<CYCLES_FAIL, CYCLES_WARN>>}}

\* classifiers train_model may return: one that agrees with label_point and
\* one that misses the Warning class
Classifiers == {"exact", "coarse"}

\* clf.predict on one reading (line 75)
Predict(c, r) ==
    LET l == label_point(r[1], r[2], r[3], r[4])
    IN  IF c = "coarse" /\ l = 1 THEN 0 ELSE l

\* the list machines with its i-th simulator left as r by update(), with
\* cycles stored on the class
CallUpdateShared(ms, i, r) ==
    [j \in DOMAIN ms |-> IF j = i THEN r ELSE [ms[j] EXCEPT !.cycles = r.cycles]]

\* line 66: the list machines with its i-th simulator left as r by update()
CallUpdate(ms, i, r) == [ms EXCEPT ![i] = r]

\* the loop of line 64 skipping every other machine
NextIndexSkip(i) == i + 2

\* line 64: the loop goes to the next machine of the list
NextIndex(i) == i + 1

\* iterations of the loop body made so far
LoopCalls == IF ticks = 0 THEN 0 ELSE (ticks - 1) * NumMachines + (idx - 1)

simvars == <<temp, vib, press, cycles, state, fault_type, fail_time,
             degrade_time, ret, pstate, dwell, away, calls, sample, label>>

\* line 12: the classifier is trained; nothing looks at the thresholds' order
TrainModel ==
    /\ phase = "import"
    /\ clf' \in Classifiers
    /\ phase' = "trained"
    /\ UNCHANGED <<thresholds, machines, idx, last_status, ticks, updates>>
    /\ UNCHANGED simvars

\* lines 15-21 and 52: the simulators and the dashboard's last statuses
CreateMachines ==
    /\ phase = "trained"
    /\ \E bs \in [1..NumMachines -> Draws] :
          machines' = [i \in 1..NumMachines |-> MachineSim(i, bs[i])]
    /\ last_status' = [i \in 1..NumMachines |-> 0]
    /\ updates' = [i \in 1..NumMachines |-> 0]
    /\ phase' = "created"
    /\ UNCHANGED <<thresholds, clf, idx, ticks>>
    /\ UNCHANGED simvars

\* update_loop is called: by line 139 the first time, then by the timer
StartTick ==
    /\ phase \in {"created", "waiting"}
    /\ LoopCalls < MaxLoopCalls
    /\ phase' = "loop"
    /\ idx' = 1
    /\ ticks' = ticks + 1
    /\ UNCHANGED <<thresholds, clf, machines, last_status, updates>>
    /\ UNCHANGED simvars

\* lines 64-133: one iteration: update() on the machine, then the dashboard
LoopBody ==
    /\ phase = "loop"
    /\ idx <= NumMachines
    /\ LoopCalls < MaxLoopCalls
    /\ \E r \in update(machines[idx]) :
          /\ machines' = CallUpdate(machines, idx, r)
          /\ last_status' =
                [last_status EXCEPT
                   ![idx] = Predict(clf, <<r.temp, r.vib, r.press, r.cycles>>)]
    /\ updates' = [updates EXCEPT ![idx] = updates[idx] + 1]
    /\ idx' = NextIndex(idx)
    /\ UNCHANGED <<phase, thresholds, clf, ticks>>
    /\ UNCHANGED simvars

\* line 136: the loop is over, the next call of update_loop is scheduled
Schedule ==
    /\ phase = "loop"
    /\ idx > NumMachines
    /\ phase' = "waiting"
    /\ UNCHANGED <<thresholds, clf, machines, idx, last_status, ticks, updates>>
    /\ UNCHANGED simvars

\* main.py starts: config is imported, nothing else exists; the single
\* simulator of Spec is not used
MainStart ==
    /\ phase = "import"
    /\ clf = "none"
    /\ machines = <<>>
    /\ idx = 0
    /\ last_status = <<>>
    /\ ticks = 0
    /\ updates = <<>>
    /\ sample = <<>>
    /\ label = -1
    /\ temp = 0 /\ vib = 0 /\ press = 0 /\ cycles = 0
    /\ state = 0 /\ fault_type = "None"
    /\ fail_time = 0 /\ degrade_time = 0
    /\ ret = <<>> /\ pstate = -1 /\ dwell = 0 /\ away = 0 /\ calls = 0

InitMain == MainStart /\ thresholds = Shipped

NextMain == TrainModel \/ CreateMachines \/ StartTick \/ LoopBody \/ Schedule

\* main.py with config.py as shipped
SpecMain == InitMain /\ [][NextMain]_vars

InitStartup == MainStart /\ thresholds \in Configs

NextStartup == TrainModel \/ CreateMachines \/ StartTick

\* the start of main.py, up to the first call of update_loop, for any
\* values of the config module
SpecStartup == InitStartup /\ [][NextStartup]_vars

\* ======================================================================
\* Properties
\* ======================================================================

\* label of the reading the last update() call returned
RetLabel(r) == label_point(r[1], r[2], r[3], r[4])

\* C1: in every reachable state fault_type is None iff state is 0 (Normal).
C1_FaultIffNotNormal == (fault_type = "None") <=> (state = 0)

\* a maintenance reset has cleared a fault
C1_Witness == pstate = 2 /\ state = 0 /\ fault_type = "None"

\* C2: after every update() call vib >= 0 and press >= 0.
C2_NonNegative == calls > 0 => (vib >= 0 /\ press >= 0)

\* C3: a simulator that has entered Degrading is in FailurePredicted after
\* at most 5 further update() calls and is never Normal in between: a call
\* made in Degrading ends in Degrading or FailurePredicted, and it ends in
\* Degrading only if fewer than 5 calls were made since the entry.
C3_DegradingTimeout ==
    [][state = 1 => /\ state' \in {1, 2}
                    /\ state' = 1 => dwell' < 5]_vars

\* the timeout itself ended the Degrading phase, on the 5th call after entry
C3_Witness ==
    /\ pstate = 1 /\ state = 2 /\ degrade_time = 5
    /\ label_point(temp, vib, press, cycles) < 2

\* C4: a call made in FailurePredicted resets exactly when, after its
\* increments, fail_time >= 5 or cycles >= CYCLES_FAIL + 100; the reset
\* leaves state 0, cycles 0, no fault, both counters 0 and the readings in
\* the baseline ranges; otherwise the machine stays in FailurePredicted.
C4_MaintenanceReset ==
    [][state = 2 =>
        \E inc \in 1..5 :
            IF fail_time + 1 >= 5 \/ cycles + inc >= CYCLES_FAIL + 100
            THEN /\ state' = 0 /\ cycles' = 0 /\ fault_type' = "None"
                 /\ degrade_time' = 0 /\ fail_time' = 0
                 /\ temp' \in 600..750 /\ vib' \in 10..30
                 /\ press' \in 1100..1300
            ELSE /\ state' = 2 /\ cycles' = cycles + inc
                 /\ fail_time' = fail_time + 1]_vars

\* a reset after five calls in FailurePredicted (the cycle-count resets of
\* the seeded machines happen on the second call)
C4_Witness == pstate = 2 /\ state = 0 /\ cycles = 0 /\ calls = 7

\* C5: a Normal simulator whose cycles is at least CYCLES_FAIL is in
\* FailurePredicted with fail_time 0 after its next update() call.
C5_EscalationShortcut ==
    [][(state = 0 /\ cycles >= CYCLES_FAIL) =>
        (state' = 2 /\ fail_time' = 0)]_vars

\* the first call on a machine seeded with CYCLES_FAIL took the shortcut
C5_Witness ==
    /\ calls = 1 /\ pstate = 0 /\ state = 2 /\ fail_time = 0
    /\ cycles \in CYCLES_FAIL + 1 .. CYCLES_FAIL + 5

\* C6: label_point returns 2 iff a fail bound is crossed, 1 iff none is and
\* a warn bound is crossed, 0 otherwise; with the shipped thresholds it
\* gives 0, 1, 2 for (70,2,120,10), (90,2,120,10), (105,2,120,10).
C6_LabelPoint ==
    sample # <<>> =>
        LET t == sample[1]
            v == sample[2]
            p == sample[3]
            c == sample[4]
            fail == \/ t >= TEMP_FAIL \/ v >= VIB_FAIL \/ p <= PRESS_FAIL_LOW
                    \/ p >= PRESS_FAIL_HIGH \/ c >= CYCLES_FAIL
            warn == \/ t >= TEMP_WARN \/ v >= VIB_WARN \/ p <= PRESS_WARN_LOW
                    \/ p >= PRESS_WARN_HIGH \/ c >= CYCLES_WARN
        IN  /\ label = 2 <=> fail
            /\ label = 1 <=> (~fail /\ warn)
            /\ label = 0 <=> (~fail /\ ~warn)
            /\ sample = <<700, 20, 1200, 10>> => label = 0
            /\ sample = <<900, 20, 1200, 10>> => label = 1
            /\ sample = <<1050, 20, 1200, 10>> => label = 2

\* the warning example of the claim has been labelled
C6_Witness == sample = <<900, 20, 1200, 10>> /\ label = 1

\* C7: the reading returned by a call that leaves Normal is labelled 1 or 2
\* by label_point.
C7_LeavingNormalLabelled ==
    [][(state = 0 /\ state' # 0) => RetLabel(ret') \in {1, 2}]_vars

\* a random trigger (cycles still normal) chose the low-pressure fault, so
\* only the forced pressure makes the reading non-Normal
C7_Witness ==
    /\ pstate = 0 /\ state = 1 /\ fault_type = "pressure_low"
    /\ cycles < CYCLES_WARN /\ temp < TEMP_WARN /\ vib < VIB_WARN
    /\ RetLabel(ret) = 1

\* C8: a call made in Degrading ends in FailurePredicted with fail_time 0
\* iff afterwards a fail bound is crossed or degrade_time >= 5, and in
\* Degrading otherwise; that is, iff the returned reading is labelled 2 or
\* the timeout has expired.
C8_DegradingEscalation ==
    [][state = 1 =>
        LET esc == \/ temp' >= TEMP_FAIL \/ vib' >= VIB_FAIL
                   \/ press' >= PRESS_FAIL_HIGH \/ press' <= PRESS_FAIL_LOW
                   \/ cycles' >= CYCLES_FAIL \/ degrade_time' >= 5
        IN  /\ (state' = 2 /\ fail_time' = 0) <=> esc
            /\ ~esc => state' = 1
            /\ esc <=> (RetLabel(ret') = 2 \/ degrade_time' >= 5)]_vars

\* an escalation before the timeout, by the low pressure bound alone
C8_Witness ==
    /\ pstate = 1 /\ state = 2 /\ fail_time = 0 /\ degrade_time < 5
    /\ press <= PRESS_FAIL_LOW /\ temp < TEMP_FAIL /\ vib < VIB_FAIL
    /\ cycles < CYCLES_FAIL

\* C9: after any update() call, state = 0 implies cycles < CYCLES_WARN.
C9_NormalBelowCyclesWarn ==
    (calls > 0 /\ state = 0) => cycles < CYCLES_WARN

\* cycles reached CYCLES_WARN during a call made in Normal, which left Normal
C9_Witness ==
    /\ pstate = 0 /\ state = 1 /\ dwell = 0
    /\ cycles \in CYCLES_WARN .. CYCLES_WARN + 4

\* C11: a call that does not perform the maintenance reset raises cycles by
\* an integer in 1..5, in all three states; the reset sets cycles to 0;
\* cycles is never negative.
C11_CyclesAdvance ==
    /\ [](cycles >= 0)
    /\ [][IF state = 2 /\ state' = 0
          THEN cycles' = 0
          ELSE cycles' - cycles \in 1..5]_vars

\* a call made in FailurePredicted without a reset has advanced cycles
C11_Witness ==
    /\ pstate = 2 /\ state = 2 /\ fail_time = 3 /\ cycles > 0
    /\ ret[4] = cycles

\* C12: every call made in Degrading with fault_type "temp" raises temp by
\* an amount between 1.0 and 3.0, so temp never decreases in that phase.
C12_TempFaultRises ==
    [][(state = 1 /\ fault_type = "temp") =>
        temp' - temp \in 10..30]_vars

\* three calls in Degrading with the temperature fault, temp above its
\* forced entry level
C12_Witness ==
    /\ pstate = 1 /\ state = 1 /\ fault_type = "temp" /\ dwell = 3
    /\ temp >= TEMP_WARN + 50 + 30

C17_StateChanges ==
    [][/\ <<state, state'>> \in {<<0, 0>>, <<0, 1>>, <<0, 2>>, <<1, 1>>,
                                  <<1, 2>>, <<2, 2>>, <<2, 0>>}
       /\ (state = 2 /\ state' = 0) =>
             (cycles' = 0 /\ fault_type' = "None")]_vars

\* a machine that went through all three states and is Normal again
C17_Witness ==
    /\ pstate = 2 /\ state = 0 /\ calls >= 7 /\ away = 0 /\ dwell = 0

\* C18: a machine that has left Normal is Normal again after at most 10
\* further calls: it is never non-Normal once 10 calls have followed the
\* one that left Normal.
C18_BoundedMaintenance == state # 0 => away <= 9

\* the longest stay: 5 calls in Degrading and 4 in FailurePredicted so far
C18_Witness == state = 2 /\ away = 9 /\ fail_time = 4

\* C19: whenever state is Degrading or FailurePredicted, label_point of the
\* current reading is at least 1.
C19_NoOptimisticLabel ==
    state \in {1, 2} => label_point(temp, vib, press, cycles) >= 1

\* a failing machine whose reading is only labelled Warning
C19_Witness ==
    /\ state = 2 /\ fail_time >= 1
    /\ label_point(temp, vib, press, cycles) = 1

\* C20: the direct Normal->FailurePredicted step is taken only by the
\* first call on a machine seeded with cycles >= CYCLES_FAIL - 5; a
\* machine that started at cycles 0, or is back at 0 after a reset, leaves
\* Normal into Degrading.
C20_ShortcutOnlyWhenSeeded ==
    [][(state = 0 /\ state' = 2) =>
        (calls = 0 /\ cycles >= CYCLES_FAIL - 5)]_vars

\* the lowest seed that takes the shortcut has taken it
C20_Witness ==
    /\ calls = 1 /\ pstate = 0 /\ state = 2 /\ cycles = CYCLES_FAIL

\* each warn bound is strictly less extreme than its fail bound
Ordered(c) ==
    /\ c.TEMP_WARN < c.TEMP_FAIL
    /\ c.VIB_WARN < c.VIB_FAIL
    /\ c.PRESS_FAIL_LOW < c.PRESS_WARN_LOW
    /\ c.PRESS_WARN_LOW < c.PRESS_WARN_HIGH
    /\ c.PRESS_WARN_HIGH < c.PRESS_FAIL_HIGH
    /\ c.CYCLES_WARN < c.CYCLES_FAIL

\* C13: the ordering of the thresholds is validated at startup: with
\* thresholds out of order the simulators are never created nor stepped.
C13_ConfigValidated ==
    phase \in {"created", "loop", "waiting"} => Ordered(thresholds)

\* C14: an update() call on one simulator changes no field of any other
\* simulator of the list, and no simulator's id.
C14_NoSharedState ==
    [][phase = "loop" =>
        \A j \in 1..NumMachines :
            /\ j # idx => machines'[j] = machines[j]
            /\ machines'[j].id = machines[j].id]_vars

\* the first machine has left Normal and the second, called after it, has
\* been escalated: both were changed, each by its own call
C14_Witness ==
    /\ phase = "loop" /\ idx >= 3 /\ ticks = 1
    /\ machines[1].state = 1 /\ machines[1].cycles <= 5
    /\ machines[2].state = 2 /\ machines[2].cycles > 1300

\* C15: every tick calls update() once on every machine, in list order,
\* and after startup the simulators change only by these calls: an
\* iteration leaves its machine as update() does and counts one call.
C15_OncePerTickInOrder ==
    /\ [](phase \in {"loop", "waiting"} =>
            \A j \in 1..NumMachines :
                updates[j] = IF j < idx THEN ticks ELSE ticks - 1)
    /\ [][(phase \in {"loop", "waiting"} /\ machines' # machines) =>
            /\ idx \in 1..NumMachines
            /\ machines'[idx] \in update(machines[idx])
            /\ updates'[idx] = updates[idx] + 1
            /\ idx' = idx + 1]_vars

\* the second tick has begun: every machine was called once, the first twice
C15_Witness ==
    /\ phase = "loop" /\ ticks = 2 /\ idx = 2
    /\ updates[1] = 2 /\ \A j \in 2..NumMachines : updates[j] = 1

====
